---- MODULE Spec2Model ----
(***************************************************************************)
(* Model of flowgen (src/unnamed/part_000): analyzeCFG and its helpers     *)
(* filterNoise, resolveDestination, getEntryPoint, getStructuralLabel,     *)
(* formatNodes and toNaturalLanguage, plus main's handling of the result.  *)
(*                                                                         *)
(* Text is modelled as a sequence of one-character strings, so that        *)
(* len(s), s[:77], ReplaceAll and TrimSpace are computed as the code       *)
(* computes them.  A cfg.Block is a record [Nodes, Succs]; its Index is    *)
(* its key in `blocks` (cfg.New numbers blocks 0..n-1 in slice order).     *)
(***************************************************************************)
EXTENDS Integers, Sequences, FiniteSets, TLC

\* ---------------------------------------------------------------- bounds
NBlocks == 2
NBlocksS == 1
MaxStmts == 2
MaxDecls == 2
MaxNodes == 2
MaxEdge == 1
Slack == 2

\* ------------------------------------------------------- program constants
LabelLimit == 80
CutAt == 77

\* ------------------------------------------------------------ text helpers
Ellipsis == <<".", ".", ".">>
BR == <<"<", "b", "r", ">">>

RECURSIVE Fill(_, _)
Fill(c, n) == IF n <= 0 THEN <<>> ELSE <<c>> \o Fill(c, n - 1)

\* strings.ReplaceAll(s, old, new) for a one-character old; new is a text
RECURSIVE ReplaceAll(_, _, _)
ReplaceAll(s, old, new) ==
  IF s = <<>> THEN <<>>
  ELSE (IF Head(s) = old THEN new ELSE <<Head(s)>>) \o ReplaceAll(Tail(s), old, new)

\* unicode.IsSpace restricted to the characters of the model's alphabet
IsSpace(c) == c \in {" ", "\n", "\t", "\r"}

RECURSIVE TrimLeft(_)
TrimLeft(s) == IF s # <<>> /\ IsSpace(Head(s)) THEN TrimLeft(Tail(s)) ELSE s

RECURSIVE TrimRight(_)
TrimRight(s) ==
  IF s # <<>> /\ IsSpace(s[Len(s)]) THEN TrimRight(SubSeq(s, 1, Len(s) - 1)) ELSE s

TrimSpace(s) == TrimRight(TrimLeft(s))

\* strings.Join(parts, sep)
RECURSIVE Join(_, _)
Join(parts, sep) ==
  IF parts = <<>> THEN <<>>
  ELSE IF Len(parts) = 1 THEN parts[1]
  ELSE parts[1] \o sep \o Join(Tail(parts), sep)

\* ------------------------------------------------------------- ast nodes
\* An ast.Node as the code inspects it:
\*   shape  the dynamic type (ExprStmt, AssignStmt, DeferStmt, IncDecStmt, ...)
\*   op     the operator token (UnaryExpr, BinaryExpr, IncDecStmt), else ""
\*   X, Y   the printed operands: Lhs / X and Rhs / Y / Results
\*   raw    printer.Fprint of the whole node
\*   expr   the expression at the node's head (ExprStmt.X, AssignStmt.Rhs[0],
\*          DeferStmt.Call): kind "Call" or "Other"; for a call, fun is the
\*          callee's type ("Selector" or "Ident"), recv the selector's X type
\*          ("Ident" or "Other") and name the receiver identifier
NoExpr == [kind |-> "Other", fun |-> "", recv |-> "", name |-> ""]
PlainCall == [kind |-> "Call", fun |-> "Ident", recv |-> "", name |-> ""]
ChainCall == [kind |-> "Call", fun |-> "Selector", recv |-> "Other", name |-> ""]
SelCall(name) == [kind |-> "Call", fun |-> "Selector", recv |-> "Ident", name |-> name]

Node(shape, op, x, y, raw, expr) ==
  [shape |-> shape, op |-> op, X |-> x, Y |-> y, raw |-> raw, expr |-> expr]

\* printRawNode: the printer's output is a field of the node
printRawNode(n) == n.raw

\* fmt.Sprintf pieces of toNaturalLanguage
S_is_false == <<" ", "i", "s", " ", "f", "a", "l", "s", "e">>
S_equals == <<" ", "e", "q", "u", "a", "l", "s", " ">>
S_not_equal == <<" ", "d", "o", "e", "s", " ", "n", "o", "t", " ", "e", "q", "u", "a", "l", " ">>
S_less == <<" ", "i", "s", " ", "l", "e", "s", "s", " ", "t", "h", "a", "n", " ">>
S_greater == <<" ", "i", "s", " ", "g", "r", "e", "a", "t", "e", "r", " ", "t", "h", "a", "n", " ">>
S_at_most == <<" ", "i", "s", " ", "a", "t", " ", "m", "o", "s", "t", " ">>
S_at_least == <<" ", "i", "s", " ", "a", "t", " ", "l", "e", "a", "s", "t", " ">>
S_and == <<" ", "A", "N", "D", " ">>
S_or == <<" ", "O", "R", " ">>
S_Set == <<"S", "e", "t", " ">>
S_to == <<" ", "t", "o", " ">>
S_Increase == <<"I", "n", "c", "r", "e", "a", "s", "e", " ">>
S_Decrease == <<"D", "e", "c", "r", "e", "a", "s", "e", " ">>
S_by_1 == <<" ", "b", "y", " ", "1">>
S_Return == <<"R", "e", "t", "u", "r", "n">>
S_comma == <<",", " ">>

BinaryWord(op) ==
  CASE op = "==" -> S_equals
    [] op = "!=" -> S_not_equal
    [] op = "<" -> S_less
    [] op = ">" -> S_greater
    [] op = "<=" -> S_at_most
    [] op = ">=" -> S_at_least
    [] op = "&&" -> S_and
    [] op = "||" -> S_or
    [] OTHER -> <<>>

toNaturalLanguage(n) ==
  CASE n.shape = "UnaryExpr" /\ n.op = "!" -> n.X[1] \o S_is_false
    [] n.shape = "BinaryExpr" /\ BinaryWord(n.op) # <<>> ->
         n.X[1] \o BinaryWord(n.op) \o n.Y[1]
    [] n.shape = "AssignStmt" /\ Len(n.X) = 1 /\ Len(n.Y) = 1 ->
         S_Set \o n.X[1] \o S_to \o n.Y[1]
    [] n.shape = "IncDecStmt" /\ n.op = "++" -> S_Increase \o n.X[1] \o S_by_1
    [] n.shape = "IncDecStmt" /\ n.op = "--" -> S_Decrease \o n.X[1] \o S_by_1
    [] n.shape = "ReturnStmt" /\ Len(n.Y) > 0 -> S_Return \o <<" ">> \o Join(n.Y, S_comma)
    [] n.shape = "ReturnStmt" /\ Len(n.Y) = 0 -> S_Return
    [] OTHER -> printRawNode(n)

\* the five ReplaceAll calls of formatNodes
Normalize(s) ==
  ReplaceAll(ReplaceAll(ReplaceAll(ReplaceAll(ReplaceAll(
    s, "\n", <<" ">>), "\t", <<>>), "\"", <<"'">>), "{", <<>>), "}", <<>>)

TruncateMutCut(s) ==
  IF Len(s) > LabelLimit THEN SubSeq(s, 1, CutAt + 1) \o Ellipsis ELSE s

Truncate(s) ==
  IF Len(s) > LabelLimit THEN SubSeq(s, 1, CutAt) \o Ellipsis ELSE s

\* one iteration of formatNodes' loop: the line produced for node n
formatLine(n) == TrimSpace(Truncate(Normalize(toNaturalLanguage(n))))

formatNodes(nodes) ==
  Join([k \in 1..Len(nodes) |-> formatLine(nodes[k])], BR)

\* ------------------------------------------------------------ filterNoise
Denylist == {"metrics", "span", "tracing", "log", "logger"}

\* the type switch of filterNoise: the expression examined, or "nil"
headExprMutLhs(n) ==
  CASE n.shape = "ExprStmt" -> n.expr
    [] n.shape = "AssignStmt" ->
         IF Len(n.Y) = 1 /\ Len(n.X) = 1 THEN n.expr ELSE NoExpr
    [] n.shape = "DeferStmt" -> n.expr
    [] OTHER -> NoExpr

headExpr(n) ==
  CASE n.shape = "ExprStmt" -> n.expr
    [] n.shape = "AssignStmt" -> IF Len(n.Y) = 1 THEN n.expr ELSE NoExpr
    [] n.shape = "DeferStmt" -> n.expr
    [] OTHER -> NoExpr

isNoise(n) ==
  LET e == headExpr(n) IN
    /\ e.kind = "Call"
    /\ e.fun = "Selector"
    /\ e.recv = "Ident"
    /\ e.name \in Denylist

\* one iteration of filterNoise's loop
filterStep(keep, n) == IF ~isNoise(n) THEN Append(keep, n) ELSE keep

RECURSIVE filterNoise(_)
filterNoise(nodes) ==
  IF nodes = <<>> THEN <<>>
  ELSE filterStep(filterNoise(SubSeq(nodes, 1, Len(nodes) - 1)), nodes[Len(nodes)])

\* ------------------------------------------------------------ cfg blocks
isEmptyPassThrough(b) == Len(b.Nodes) = 0 /\ Len(b.Succs) = 1

\* Node identifiers: B<i> and B<i>_setup, and the synthetic ROOT
BlockId(i) == [blk |-> i, setup |-> FALSE]
SetupId(i) == [blk |-> i, setup |-> TRUE]
RootId == [blk |-> -1, setup |-> FALSE]
NoId == [blk |-> -2, setup |-> FALSE]

getEntryPoint(blks, j) ==
  IF Len(blks[j].Nodes) > 1 /\ Len(blks[j].Succs) = 2 THEN SetupId(j) ELSE BlockId(j)

\* resolveDestination's loop state: curr and visited are the code's locals;
\* done marks that the loop was left, broke that it was left by `break`, and
\* prev is the block marked visited last (kept for the claims only)
ResolveStart(b) ==
  [curr |-> b, visited |-> {}, prev |-> -1, done |-> FALSE, broke |-> FALSE]

ResolveStepMutPrev(blks, st) ==
  IF isEmptyPassThrough(blks[st.curr])
  THEN IF st.curr \in st.visited
       THEN [st EXCEPT !.done = TRUE, !.broke = TRUE, !.curr = st.prev]
       ELSE [st EXCEPT !.visited = @ \cup {st.curr}, !.prev = st.curr,
                       !.curr = blks[st.curr].Succs[1]]
  ELSE [st EXCEPT !.done = TRUE]

ResolveStepMutAdvance(blks, st) ==
  IF isEmptyPassThrough(blks[st.curr])
  THEN IF st.curr \in st.visited
       THEN [st EXCEPT !.done = TRUE, !.broke = TRUE, !.curr = blks[st.curr].Succs[1]]
       ELSE [st EXCEPT !.visited = @ \cup {st.curr}, !.prev = st.curr,
                       !.curr = blks[st.curr].Succs[1]]
  ELSE [st EXCEPT !.done = TRUE]

\* one evaluation of the loop condition and, if it holds, of the loop body
ResolveStep(blks, st) ==
  IF isEmptyPassThrough(blks[st.curr])
  THEN IF st.curr \in st.visited
       THEN [st EXCEPT !.done = TRUE, !.broke = TRUE]
       ELSE [st EXCEPT !.visited = @ \cup {st.curr}, !.prev = st.curr,
                       !.curr = blks[st.curr].Succs[1]]
  ELSE [st EXCEPT !.done = TRUE]

RECURSIVE resolveRun(_, _)
resolveRun(blks, st) == IF st.done THEN st ELSE resolveRun(blks, ResolveStep(blks, st))

resolveDestination(blks, b) == resolveRun(blks, ResolveStart(b)).curr

S_Start == <<"S", "t", "a", "r", "t">>
S_End == <<"E", "n", "d", " ", "/", " ", "R", "e", "t", "u", "r", "n">>
S_LoopEntry == <<"L", "o", "o", "p", " ", "/", " ", "S", "w", "i", "t", "c", "h", " ",
                 "E", "n", "t", "r", "y">>
S_Merge == <<"M", "e", "r", "g", "e", " ", "P", "o", "i", "n", "t">>
StructuralLabels == {S_Start, S_End, S_LoopEntry, S_Merge}

getStructuralLabel(blks, i) ==
  IF i = 0 THEN S_Start
  ELSE IF Len(blks[i].Succs) = 0 THEN S_End
  ELSE IF Len(blks[i].Succs) = 2 THEN S_LoopEntry
  ELSE S_Merge

\* --------------------------------------------------------- output lines
\* One record per line written to buf
ClassLine(name) ==
  [t |-> "classDef", id |-> NoId, shape |-> "", label |-> <<>>, class |-> name,
   src |-> NoId, arrow |-> "", dst |-> NoId]
NodeLine(id, shape, label, class) ==
  [t |-> "node", id |-> id, shape |-> shape, label |-> label, class |-> class,
   src |-> NoId, arrow |-> "", dst |-> NoId]
EdgeLine(src, arrow, dst) ==
  [t |-> "edge", id |-> NoId, shape |-> "", label |-> <<>>, class |-> "",
   src |-> src, arrow |-> arrow, dst |-> dst]

LoopArrows == {"-.->|Loop|", "-.->|Loop True|", "-.->|Loop False|"}
ForwardArrows == {"-->", "-->|True|", "-->|False|"}

edgeArrowMutStrict(destIndex, blockIndex, forward, loop) ==
  IF destIndex < blockIndex THEN loop ELSE forward

\* the arrow of a successor edge: `if dest.Index <= block.Index`
edgeArrow(destIndex, blockIndex, forward, loop) ==
  IF destIndex <= blockIndex THEN loop ELSE forward

isSplitMutAny(b) == Len(b.Nodes) > 0 /\ Len(b.Succs) = 2

isSplit(b) == Len(b.Nodes) > 1 /\ Len(b.Succs) = 2

\* node declarations of block i (lines 102-127)
NodeLines(blks, i) ==
  LET b == blks[i]
      n == Len(b.Nodes)
  IN IF isSplit(b)
     THEN << NodeLine(SetupId(i), "rect", formatNodes(SubSeq(b.Nodes, 1, n - 1)), ""),
             NodeLine(BlockId(i), "diamond", formatNodes(SubSeq(b.Nodes, n, n)), ""),
             EdgeLine(SetupId(i), "-->", BlockId(i)) >>
     ELSE << NodeLine(BlockId(i),
                      IF Len(b.Succs) = 2 THEN "diamond" ELSE "rect",
                      IF n = 0 THEN getStructuralLabel(blks, i) ELSE formatNodes(b.Nodes),
                      IF Len(b.Succs) = 0 THEN "endNode" ELSE "") >>

\* successor edges of block i (lines 129-153)
EdgeLines(blks, i) ==
  LET b == blks[i] IN
    IF Len(b.Succs) = 1
    THEN LET dest == resolveDestination(blks, b.Succs[1])
         IN << EdgeLine(BlockId(i), edgeArrow(dest, i, "-->", "-.->|Loop|"),
                        getEntryPoint(blks, dest)) >>
    ELSE IF Len(b.Succs) = 2
    THEN LET destTrue == resolveDestination(blks, b.Succs[1])
             destFalse == resolveDestination(blks, b.Succs[2])
         IN << EdgeLine(BlockId(i), edgeArrow(destTrue, i, "-->|True|", "-.->|Loop True|"),
                        getEntryPoint(blks, destTrue)),
               EdgeLine(BlockId(i), edgeArrow(destFalse, i, "-->|False|", "-.->|Loop False|"),
                        getEntryPoint(blks, destFalse)) >>
    ELSE <<>>

BlockLinesMutOrder(blks, i) == EdgeLines(blks, i) \o NodeLines(blks, i)

\* one iteration of the rendering loop for a block that is not skipped
BlockLines(blks, i) == NodeLines(blks, i) \o EdgeLines(blks, i)

S_func == <<"f", "u", "n", "c", " ">>

\* lines 89-95: the style classes, the ROOT node and the ROOT edge
HeaderLines(blks, startFunc) ==
  << ClassLine("root"), ClassLine("endNode"),
     NodeLine(RootId, "stadium", S_func \o <<startFunc>>, "root"),
     EdgeLine(RootId, "-->", getEntryPoint(blks, resolveDestination(blks, 0))) >>

\* lines 62-73: the declaration the traversal leaves in targetDecl (0 = nil);
\* every match overwrites the previous one
RECURSIVE findTarget(_, _, _)
findTarget(ds, name, k) ==
  IF k = 0 THEN 0
  ELSE IF ds[k] = name THEN k
  ELSE findTarget(ds, name, k - 1)

\* ---------------------------------------------------------------- inputs
SeqsUpTo(S, k) == UNION {[1..m -> S] : m \in 0..k}

\* log.Print(), x++ and the empty statement `;`
StmtNoise ==
  Node("ExprStmt", "", <<>>, <<>>, <<"l", "o", "g", ".", "P", "(", ")">>, SelCall("log"))
StmtInc == Node("IncDecStmt", "++", << <<"x">> >>, <<>>, <<"x", "+", "+">>, NoExpr)
StmtEmpty == Node("EmptyStmt", "", <<>>, <<>>, <<>>, NoExpr)

SuccLists(n) ==
  {<<>>} \cup {<<a>> : a \in 0..(n - 1)} \cup {<<a, b>> : a, b \in 0..(n - 1)}

\* every block list of n blocks with 0, 1 or 2 successors each
Graphs(n, Bodies) == [0..(n - 1) -> [Nodes : Bodies, Succs : SuccLists(n)]]

\* the three cases the shaping code tells apart: no, one, several statements
GraphBodies == {<<>>, <<StmtInc>>, <<StmtInc, StmtInc>>}
GraphInputs == Graphs(NBlocks, GraphBodies)
StmtInputs == Graphs(NBlocksS, SeqsUpTo({StmtNoise, StmtInc, StmtEmpty}, MaxStmts))
ResolveInputs == Graphs(NBlocks, {<<>>, <<StmtInc>>})

StartFunc == "f"
DeclNames == {"f", "g"}
OneDecl == {<<>>, <<StartFunc>>}
DeclInputs == SeqsUpTo(DeclNames, MaxDecls)

\* ----------------------------------------------------------------- state
VARIABLES pc, decls, targetDecl, blocks, buf, idx, ret, output, exit,
          rst, rfirst, fnodes, fkeep, fidx, pnodes, plines, plabel

pipeVars == <<decls, targetDecl, buf, idx, ret, output, exit>>
resolveVars == <<rst, rfirst>>
filterVars == <<fnodes, fkeep, fidx>>
formatVars == <<pnodes, plines, plabel>>
vars == <<pc, blocks, pipeVars, resolveVars, filterVars, formatVars>>

NoRet == [code |-> <<>>, err |-> "unset"]
NoOutput == [to |-> "none", text |-> <<>>]

PipeIdle ==
  /\ decls = <<>> /\ targetDecl = 0 /\ buf = <<>> /\ idx = 0
  /\ ret = NoRet /\ output = NoOutput /\ exit = -1
ResolveIdle == rst = ResolveStart(0) /\ rfirst = ResolveStart(0)
FilterIdle == fnodes = <<>> /\ fkeep = <<>> /\ fidx = 0
FormatIdle == pnodes = <<>> /\ plines = <<>> /\ plabel = <<>>

\* -------------------------------------------------- main and analyzeCFG
Init ==
  /\ pc = "load" /\ blocks = <<>>
  /\ PipeIdle /\ ResolveIdle /\ FilterIdle /\ FormatIdle

Others == UNCHANGED <<resolveVars, filterVars, formatVars>>

\* lines 54-57: packages.Load fails or reports errors
LoadFail ==
  /\ pc = "load"
  /\ ret' = [code |-> <<>>, err |-> "failed to load packages"]
  /\ pc' = "main"
  /\ UNCHANGED <<decls, targetDecl, blocks, buf, idx, output, exit>> /\ Others

\* lines 54-57: the loaded files' function declarations, in traversal order
LoadOk(D) ==
  /\ pc = "load"
  /\ decls' \in D
  /\ pc' = "find"
  /\ UNCHANGED <<targetDecl, blocks, buf, idx, ret, output, exit>> /\ Others

\* lines 59-77 with targetDecl == nil
TargetNotFound ==
  /\ pc = "find"
  /\ findTarget(decls, StartFunc, Len(decls)) = 0
  /\ ret' = [code |-> <<>>, err |-> "function not found"]
  /\ pc' = "main"
  /\ UNCHANGED <<decls, targetDecl, blocks, buf, idx, output, exit>> /\ Others

\* lines 59-77 with a declaration found
TargetFound ==
  /\ pc = "find"
  /\ findTarget(decls, StartFunc, Len(decls)) # 0
  /\ targetDecl' = findTarget(decls, StartFunc, Len(decls))
  /\ pc' = "cfg"
  /\ UNCHANGED <<decls, blocks, buf, idx, ret, output, exit>> /\ Others

\* line 79: cfg.New returns the body's blocks
BuildCFG(G) ==
  /\ pc = "cfg"
  /\ blocks' \in G
  /\ pc' = "filter"
  /\ UNCHANGED pipeVars /\ Others

\* lines 82-84
FilterBlocks ==
  /\ pc = "filter"
  /\ blocks' = [i \in DOMAIN blocks |->
                  [blocks[i] EXCEPT !.Nodes = filterNoise(blocks[i].Nodes)]]
  /\ pc' = "header"
  /\ UNCHANGED pipeVars /\ Others

\* lines 86-95
WriteHeader ==
  /\ pc = "header"
  /\ buf' = HeaderLines(blocks, StartFunc)
  /\ idx' = 0
  /\ pc' = "render"
  /\ UNCHANGED <<decls, targetDecl, blocks, ret, output, exit>> /\ Others

\* lines 97-100: a pass-through block is skipped
SkipBlock ==
  /\ pc = "render"
  /\ idx \in DOMAIN blocks
  /\ isEmptyPassThrough(blocks[idx])
  /\ idx' = idx + 1
  /\ UNCHANGED <<pc, decls, targetDecl, blocks, buf, ret, output, exit>> /\ Others

\* lines 97-154: one iteration of the rendering loop
RenderBlock ==
  /\ pc = "render"
  /\ idx \in DOMAIN blocks
  /\ ~isEmptyPassThrough(blocks[idx])
  /\ buf' = buf \o BlockLines(blocks, idx)
  /\ idx' = idx + 1
  /\ UNCHANGED <<pc, decls, targetDecl, blocks, ret, output, exit>> /\ Others

\* line 156
ReturnCode ==
  /\ pc = "render"
  /\ idx \notin DOMAIN blocks
  /\ ret' = [code |-> buf, err |-> "nil"]
  /\ pc' = "main"
  /\ UNCHANGED <<decls, targetDecl, blocks, buf, idx, output, exit>> /\ Others

\* main, lines 28-31
MainError ==
  /\ pc = "main"
  /\ ret.err # "nil"
  /\ exit' = 1
  /\ pc' = "exit"
  /\ UNCHANGED <<decls, targetDecl, blocks, buf, idx, ret, output>> /\ Others

\* main, lines 34-45: outFile is "-" or a path, and os.WriteFile may fail
MainOutput ==
  /\ pc = "main"
  /\ ret.err = "nil"
  /\ \E outFile \in {"-", "flow.md"}, writeOk \in BOOLEAN :
       /\ output' = IF outFile = "-" THEN [to |-> "stdout", text |-> ret.code]
                    ELSE IF writeOk THEN [to |-> "file", text |-> ret.code]
                    ELSE NoOutput
       /\ exit' = IF outFile # "-" /\ ~writeOk THEN 1 ELSE 0
  /\ pc' = "exit"
  /\ UNCHANGED <<decls, targetDecl, blocks, buf, idx, ret>> /\ Others

Pipeline ==
  \/ LoadFail \/ TargetNotFound \/ TargetFound \/ FilterBlocks \/ WriteHeader
  \/ SkipBlock \/ RenderBlock \/ ReturnCode \/ MainError \/ MainOutput

\* every graph of NBlocks blocks, one kind of statement
NextGraph == Pipeline \/ LoadOk(OneDecl) \/ BuildCFG(GraphInputs)
SpecGraph == Init /\ [][NextGraph]_vars

\* fewer blocks, every mix of noise, plain and empty statements
NextStmts == Pipeline \/ LoadOk(OneDecl) \/ BuildCFG(StmtInputs)
SpecStmts == Init /\ [][NextStmts]_vars

\* every list of declarations
NextTarget == Pipeline \/ LoadOk(DeclInputs) \/ BuildCFG(StmtInputs)
SpecTarget == Init /\ [][NextTarget]_vars

\* ---------------------------------------------------- resolveDestination
\* resolveDestination(b) run step by step on every graph and start block,
\* then run again on its own result
InitResolve ==
  /\ pc = "resolve"
  /\ blocks \in ResolveInputs
  /\ \E b \in 0..(NBlocks - 1) : rst = ResolveStart(b)
  /\ rfirst = ResolveStart(0)
  /\ PipeIdle /\ FilterIdle /\ FormatIdle

\* lines 210-216: the loop condition and body, once
ResolveIterate ==
  /\ pc \in {"resolve", "resolveAgain"}
  /\ ~rst.done
  /\ rst' = ResolveStep(blocks, rst)
  /\ UNCHANGED <<pc, blocks, rfirst, pipeVars, filterVars, formatVars>>

\* line 217, then the call resolveDestination(result)
ResolveReturn ==
  /\ pc = "resolve"
  /\ rst.done
  /\ rfirst' = rst
  /\ rst' = ResolveStart(rst.curr)
  /\ pc' = "resolveAgain"
  /\ UNCHANGED <<blocks, pipeVars, filterVars, formatVars>>

\* line 217 of the second call
ResolveReturnAgain ==
  /\ pc = "resolveAgain"
  /\ rst.done
  /\ pc' = "resolved"
  /\ UNCHANGED <<blocks, rst, rfirst, pipeVars, filterVars, formatVars>>

NextResolve == ResolveIterate \/ ResolveReturn \/ ResolveReturnAgain

\* the loop is sequential code: a step that can be taken is taken
SpecResolve == InitResolve /\ [][NextResolve]_vars /\ WF_vars(NextResolve)

\* ------------------------------------------------------------ filterNoise
FilterNames == Denylist \cup {"fmt"}
FilterHeads == {NoExpr, PlainCall, ChainCall} \cup {SelCall(nm) : nm \in FilterNames}
CallHeads == FilterHeads \ {NoExpr}
Operands(k) == [j \in 1..k |-> <<"v">>]
\* (targets, sources) of an assignment: equal counts, or one source
AssignArities == {<<1, 1>>, <<2, 1>>, <<2, 2>>}

FilterNodes ==
  {Node("ExprStmt", "", <<>>, <<>>, <<>>, h) : h \in FilterHeads}
  \cup {Node("AssignStmt", "", Operands(a[1]), Operands(a[2]), <<>>, h) :
          a \in AssignArities, h \in FilterHeads}
  \cup {Node("DeferStmt", "", <<>>, <<>>, <<>>, h) : h \in CallHeads}
  \cup {Node("GoStmt", "", <<>>, <<>>, <<>>, h) : h \in CallHeads}

InitFilter ==
  /\ pc = "filterLoop"
  /\ fnodes \in SeqsUpTo(FilterNodes, MaxNodes)
  /\ fkeep = <<>> /\ fidx = 1
  /\ blocks = <<>>
  /\ PipeIdle /\ ResolveIdle /\ FormatIdle

\* lines 162-192: one iteration of the loop
FilterIterate ==
  /\ pc = "filterLoop"
  /\ fidx <= Len(fnodes)
  /\ fkeep' = filterStep(fkeep, fnodes[fidx])
  /\ fidx' = fidx + 1
  /\ UNCHANGED <<pc, blocks, fnodes, pipeVars, resolveVars, formatVars>>

\* line 193
FilterReturn ==
  /\ pc = "filterLoop"
  /\ fidx > Len(fnodes)
  /\ pc' = "filtered"
  /\ UNCHANGED <<blocks, filterVars, pipeVars, resolveVars, formatVars>>

NextFilter == FilterIterate \/ FilterReturn
SpecFilter == InitFilter /\ [][NextFilter]_vars

\* ------------------------------------------------------------ formatNodes
Alphabet == {"a", " ", "\n", "\t", "\"", "{", "}"}
FillLens == {0} \cup ((LabelLimit - Slack)..(LabelLimit + Slack))

\* phrases around the length limit, shaped like printed source: a letter,
\* then a run of letters between two edges, not ending in whitespace
Phrases ==
  {<<>>} \cup
  {p \in {<<"a">> \o pre \o Fill("a", n) \o suf :
            pre \in SeqsUpTo(Alphabet, MaxEdge), suf \in SeqsUpTo(Alphabet, MaxEdge),
            n \in FillLens} : ~IsSpace(p[Len(p)])}

\* a node the humanizer leaves to printRawNode, printing as phrase p
PhraseNode(p) == Node("CallExpr", "", <<>>, <<>>, p, PlainCall)

InitFormat ==
  /\ pc = "formatLoop"
  /\ pnodes \in {<<>>} \cup {<<PhraseNode(p)>> : p \in Phrases}
                \cup {<<StmtInc, PhraseNode(p)>> : p \in Phrases}
  /\ plines = <<>> /\ plabel = <<>>
  /\ blocks = <<>>
  /\ PipeIdle /\ ResolveIdle /\ FilterIdle

\* lines 235-248: one iteration of the loop
FormatIterate ==
  /\ pc = "formatLoop"
  /\ Len(plines) < Len(pnodes)
  /\ plines' = Append(plines, formatLine(pnodes[Len(plines) + 1]))
  /\ UNCHANGED <<pc, blocks, pnodes, plabel, pipeVars, resolveVars, filterVars>>

\* line 249
FormatReturn ==
  /\ pc = "formatLoop"
  /\ Len(plines) = Len(pnodes)
  /\ plabel' = Join(plines, BR)
  /\ pc' = "formatted"
  /\ UNCHANGED <<blocks, pnodes, plines, pipeVars, resolveVars, filterVars>>

NextFormat == FormatIterate \/ FormatReturn
SpecFormat == InitFormat /\ [][NextFormat]_vars

\* ================================================================ claims
\* analyzeCFG returned its text without error
Rendered == pc \in {"main", "exit"} /\ ret.err = "nil"

Lines(P(_)) == {k \in 1..Len(buf) : P(buf[k])}
IsNodeOf(i, l) == l.t = "node" /\ l.id.blk = i
IsEdgeOf(i, l) == l.t = "edge" /\ l.src.blk = i
NodeLinesOf(i) == {k \in 1..Len(buf) : IsNodeOf(i, buf[k])}
EdgeLinesOf(i) == {k \in 1..Len(buf) : IsEdgeOf(i, buf[k])}
\* the successor edges of block i, in output order (the setup edge leaves B<i>_setup)
SuccEdges(i) == SelectSeq(buf, LAMBDA l : l.t = "edge" /\ l.src = BlockId(i))
Declared == {buf[k].id : k \in {j \in 1..Len(buf) : buf[j].t = "node"}}
RenderedBlocks == {i \in DOMAIN blocks : ~isEmptyPassThrough(blocks[i])}
\* more than one statement and exactly two successors
SplitBlock(i) == Len(blocks[i].Nodes) > 1 /\ Len(blocks[i].Succs) = 2

\* C1: every edge of the output, the ROOT edge included, targets a node declared
\* in the same output and never a pass-through block, and no pass-through
\* block is declared as a node.
C1_EdgesTargetDeclaredNodes ==
  Rendered =>
    /\ \A k \in 1..Len(buf) :
         buf[k].t = "edge" =>
           /\ buf[k].dst \in Declared
           /\ ~isEmptyPassThrough(blocks[buf[k].dst.blk])
    /\ \A i \in DOMAIN blocks : isEmptyPassThrough(blocks[i]) => NodeLinesOf(i) = {}

\* C2: resolveDestination terminates on every block graph, pass-through cycles
\* included, and resolving its result again returns the same block.
C2_TerminatesIdempotent ==
  /\ <>(pc = "resolved")
  /\ [](pc = "resolved" => rst.curr = rfirst.curr)

\* C2 witness: both calls returned and the first one left its loop by the
\* cycle break, so the block resolved again is itself a pass-through block
C2_Witness ==
  /\ pc = "resolved"
  /\ rfirst.broke
  /\ rfirst.curr # rfirst.prev
  /\ rst.curr = rfirst.curr

\* C3: a rendered block has a B<i>_setup node, a B<i> decision node and the
\* unconditional edge between them exactly when its filtered statement list
\* has more than one statement and it has two successors; the setup label
\* followed by the decision label is then the label of the whole list, and
\* the decision label is that of the last statement alone.
C3_SplitIffAndComplete ==
  Rendered =>
    \A i \in RenderedBlocks :
      LET b == blocks[i]
          n == Len(b.Nodes)
          split == n > 1 /\ Len(b.Succs) = 2
      IN /\ (SetupId(i) \in Declared) <=> split
         /\ Cardinality(NodeLinesOf(i)) = IF split THEN 2 ELSE 1
         /\ split =>
              \E k \in 1..(Len(buf) - 2) :
                /\ buf[k].t = "node" /\ buf[k].id = SetupId(i) /\ buf[k].shape = "rect"
                /\ buf[k + 1].t = "node" /\ buf[k + 1].id = BlockId(i)
                /\ buf[k + 1].shape = "diamond"
                /\ buf[k + 2] = EdgeLine(SetupId(i), "-->", BlockId(i))
                /\ buf[k].label \o BR \o buf[k + 1].label = formatNodes(b.Nodes)
                /\ buf[k + 1].label = formatLine(b.Nodes[n])
         /\ ~split => \A k \in NodeLinesOf(i) :
                        buf[k].label \in {formatNodes(b.Nodes), getStructuralLabel(blocks, i)}

\* C3 witness: a block whose filtered list has two statements was split, and
\* a two-successor block with a single statement was not
C3_Witness ==
  /\ Rendered
  /\ \E i \in RenderedBlocks :
       Len(blocks[i].Nodes) = 2 /\ blocks[i].Nodes[1] # blocks[i].Nodes[2]
       /\ SetupId(i) \in Declared

\* C4: a successor edge is a loop edge exactly when the index of its resolved
\* target is at most the index of its source block; the one edge of a
\* one-successor block and the True and the False edge of a two-successor
\* block follow the same rule.
C4_LoopIffTargetNotAfterSource ==
  Rendered =>
    \A i \in RenderedBlocks :
      LET es == SuccEdges(i)
          succs == blocks[i].Succs
      IN /\ Len(es) = Len(succs)
         /\ \A j \in 1..Len(es) :
              /\ es[j].dst.blk = resolveDestination(blocks, succs[j])
              /\ es[j].arrow \in LoopArrows <=> es[j].dst.blk <= i
              /\ es[j].arrow \in
                   (IF Len(succs) = 1 THEN {"-->", "-.->|Loop|"}
                    ELSE IF j = 1 THEN {"-->|True|", "-.->|Loop True|"}
                    ELSE {"-->|False|", "-.->|Loop False|"})

\* C4 witness: an output holding a loop edge whose target is its own source
\* block, a loop edge to an earlier block and a forward edge
C4_Witness ==
  /\ Rendered
  /\ \E k \in 1..Len(buf) :
       buf[k].t = "edge" /\ buf[k].arrow = "-.->|Loop True|" /\ buf[k].dst.blk = buf[k].src.blk
  /\ \E k \in 1..Len(buf) :
       buf[k].t = "edge" /\ buf[k].arrow = "-.->|Loop|" /\ buf[k].dst.blk < buf[k].src.blk
  /\ \E k \in 1..Len(buf) :
       buf[k].t = "edge" /\ buf[k].arrow = "-->|False|" /\ buf[k].dst.blk > buf[k].src.blk

RECURSIVE IsSubseq(_, _)
IsSubseq(a, b) ==
  IF a = <<>> THEN TRUE
  ELSE IF b = <<>> THEN FALSE
  ELSE IF Head(a) = Head(b) THEN IsSubseq(Tail(a), Tail(b))
  ELSE IsSubseq(a, Tail(b))

Count(seq, n) == Cardinality({k \in 1..Len(seq) : seq[k] = n})

DenyCall(e) ==
  e.kind = "Call" /\ e.fun = "Selector" /\ e.recv = "Ident" /\ e.name \in Denylist

\* the three shapes as the claim words them: the assignment has one target
RecognizedAsClaimed(n) ==
  \/ n.shape \in {"ExprStmt", "DeferStmt"}
  \/ n.shape = "AssignStmt" /\ Len(n.X) = 1 /\ Len(n.Y) = 1

\* the three shapes with any number of targets on a single-source assignment
RecognizedSingleSource(n) ==
  \/ n.shape \in {"ExprStmt", "DeferStmt"}
  \/ n.shape = "AssignStmt" /\ Len(n.Y) = 1

\* C5 as claimed: filterNoise returns a subsequence of its input, keeps no
\* recognized node whose head call has a denylisted bare-identifier receiver,
\* and drops no node outside the three recognized shapes, a multi-target
\* assignment included.
C5_AsClaimed ==
  pc = "filtered" =>
    /\ IsSubseq(fkeep, fnodes)
    /\ \A k \in 1..Len(fkeep) :
         ~(RecognizedAsClaimed(fkeep[k]) /\ DenyCall(fkeep[k].expr))
    /\ \A k \in 1..Len(fnodes) :
         ~RecognizedAsClaimed(fnodes[k]) =>
           Count(fkeep, fnodes[k]) = Count(fnodes, fnodes[k])

\* C5 amended: the same with the assignment shape being any assignment with
\* a single source expression: a multi-target assignment from one denylisted
\* call is dropped, an assignment with several sources is always kept, and
\* exactly the recognized nodes with a denylisted head call are dropped.
C5_FilterSingleSource ==
  pc = "filtered" =>
    /\ IsSubseq(fkeep, fnodes)
    /\ \A k \in 1..Len(fkeep) :
         ~(RecognizedSingleSource(fkeep[k]) /\ DenyCall(fkeep[k].expr))
    /\ \A k \in 1..Len(fnodes) :
         ~(RecognizedSingleSource(fnodes[k]) /\ DenyCall(fnodes[k].expr)) =>
           Count(fkeep, fnodes[k]) = Count(fnodes, fnodes[k])

\* C5 witness: a two-target assignment from a denylisted call was dropped
\* while a statement of an unrecognized shape with such a call was kept
C5_Witness ==
  /\ pc = "filtered"
  /\ \E k \in 1..Len(fnodes) :
       /\ fnodes[k].shape = "AssignStmt" /\ Len(fnodes[k].X) = 2
       /\ DenyCall(fnodes[k].expr)
       /\ Count(fkeep, fnodes[k]) = 0
  /\ \E k \in 1..Len(fkeep) : fkeep[k].shape = "GoStmt" /\ DenyCall(fkeep[k].expr)

EndsWithEllipsis(s) == Len(s) >= 3 /\ SubSeq(s, Len(s) - 2, Len(s)) = Ellipsis

\* C6 as claimed: a phrase longer than 80 characters gets a label of exactly
\* 80 characters ending in "..."; a shorter one is emitted normalized and
\* trimmed.
C6_AsClaimed ==
  \A k \in 1..Len(plines) :
    LET p == toNaturalLanguage(pnodes[k]) IN
      IF Len(p) > LabelLimit
      THEN Len(plines[k]) = LabelLimit /\ EndsWithEllipsis(plines[k])
      ELSE plines[k] = TrimSpace(Normalize(p))

\* C6 amended: the length that decides is the one after normalization.  A
\* phrase whose normalized text is longer than 80 characters gets that
\* text's first 77 characters followed by "...", less leading whitespace:
\* at most 80 characters, and exactly 80 unless the text begins with
\* whitespace.  Any other phrase is emitted normalized and trimmed.
C6_TruncatesNormalized ==
  \A k \in 1..Len(plines) :
    LET q == Normalize(toNaturalLanguage(pnodes[k])) IN
      IF Len(q) > LabelLimit
      THEN /\ EndsWithEllipsis(plines[k])
           /\ Len(plines[k]) <= LabelLimit
           /\ ~IsSpace(q[1]) => Len(plines[k]) = LabelLimit
           /\ SubSeq(plines[k], 1, Len(plines[k]) - 3) = TrimLeft(SubSeq(q, 1, CutAt))
      ELSE plines[k] = TrimSpace(q)

\* C6 witness: a label was produced for a phrase that normalization shortened
\* and that was still longer than 80 characters, and it has exactly 80
C6_Witness ==
  /\ pc = "formatted"
  /\ \E k \in 1..Len(plines) :
       LET p == toNaturalLanguage(pnodes[k]) IN
         /\ Len(Normalize(p)) > LabelLimit
         /\ Len(p) > Len(Normalize(p))
         /\ Len(plines[k]) = LabelLimit
         /\ EndsWithEllipsis(plines[k])

\* C7: resolution succeeds only when exactly one declaration has the
\* requested name; with none or several, analyzeCFG returns an error and an
\* empty text, and main writes no output.
C7_ExactlyOneDeclaration ==
  LET matches == Count(decls, StartFunc) IN
    /\ pc \in {"cfg", "filter", "header", "render"} => matches = 1
    /\ (pc = "exit" /\ matches # 1) =>
         ret.err # "nil" /\ ret.code = <<>> /\ buf = <<>> /\ output = NoOutput

\* the block a line belongs to: the block of the node it declares or of the
\* node its edge leaves
Owner(l) == IF l.t = "node" THEN l.id.blk ELSE l.src.blk

\* the part of C8 that the amendment keeps: the four header lines, then the
\* rendered blocks' lines in ascending block order, each block's node lines
\* before its edge lines, each node declared once, nothing for a skipped block
C8_Layout ==
  /\ Len(buf) >= 4
  /\ buf[1] = ClassLine("root") /\ buf[2] = ClassLine("endNode")
  /\ buf[3].t = "node" /\ buf[3].id = RootId
  /\ buf[4].t = "edge" /\ buf[4].src = RootId
  /\ \A k \in 5..Len(buf) : buf[k].t \in {"node", "edge"} /\ Owner(buf[k]) \in RenderedBlocks
  /\ \A k \in 5..(Len(buf) - 1) : Owner(buf[k]) <= Owner(buf[k + 1])
  /\ \A i \in RenderedBlocks :
       /\ Cardinality(NodeLinesOf(i)) \in {1, 2}
       /\ \A k \in NodeLinesOf(i) : \A m \in EdgeLinesOf(i) : k < m
  /\ \A k, m \in 1..Len(buf) :
       (buf[k].t = "node" /\ buf[m].t = "node" /\ buf[k].id = buf[m].id) => k = m

\* C8 as claimed: the layout above, with 1 or 2 edge lines after the node
\* lines of every rendered block.
C8_AsClaimed ==
  Rendered =>
    /\ C8_Layout
    /\ \A i \in RenderedBlocks : Cardinality(EdgeLinesOf(i)) \in {1, 2}

\* C8 amended: the layout above, where a rendered block has as many
\* successor-edge lines as it has successors (none for a terminal block, 1 or
\* 2 otherwise), and a split block has, between its two node lines and its
\* two successor edges, the B<i>_setup --> B<i> line.
C8_OutputOrder ==
  Rendered =>
    /\ C8_Layout
    /\ \A i \in RenderedBlocks :
         /\ Len(SuccEdges(i)) = Len(blocks[i].Succs)
         /\ Cardinality(EdgeLinesOf(i)) =
              Len(blocks[i].Succs) + (IF SplitBlock(i) THEN 1 ELSE 0)
         /\ SplitBlock(i) =>
              \E k \in NodeLinesOf(i) :
                /\ buf[k].id = BlockId(i)
                /\ buf[k + 1] = EdgeLine(SetupId(i), "-->", BlockId(i))
                /\ \A m \in EdgeLinesOf(i) : m >= k + 1

\* C8 witness: an output with a split block followed by a terminal block
C8_Witness ==
  /\ Rendered
  /\ \E i, j \in RenderedBlocks :
       /\ i < j
       /\ SplitBlock(i) /\ Cardinality(EdgeLinesOf(i)) = 3
       /\ Len(blocks[j].Succs) = 0 /\ EdgeLinesOf(j) = {}

\* the first call of resolveDestination has returned
FirstReturned == pc \in {"resolveAgain", "resolved"}

\* C9 as claimed: a run that ends in a pass-through cycle returns the last
\* block visited before an index repeated.
C9_AsClaimed == (FirstReturned /\ rfirst.broke) => rfirst.curr = rfirst.prev

\* C9 amended: a run that ends in a pass-through cycle returns the repeated
\* block itself, that is the already-visited pass-through block that is the
\* successor of the last block visited.
C9_ReturnsRepeatedBlock ==
  (FirstReturned /\ rfirst.broke) =>
    /\ rfirst.curr \in rfirst.visited
    /\ isEmptyPassThrough(blocks[rfirst.curr])
    /\ rfirst.curr = blocks[rfirst.prev].Succs[1]

\* C9 witness: a run ended by the cycle break in a cycle of more than one
\* block, where the last block visited and the repeated block differ
C9_Witness ==
  /\ FirstReturned /\ rfirst.broke
  /\ rfirst.prev # rfirst.curr
  /\ rfirst.curr = blocks[rfirst.prev].Succs[1]

\* C10: a rendered block with no statements after filtering is labelled
\* Start, End / Return, Loop / Switch Entry or Merge Point by the first rule
\* that applies; no rendered node carries an empty label, and a block whose
\* formatted label is not empty carries that label.
C10_StructuralLabels ==
  Rendered =>
    \A i \in RenderedBlocks : \A k \in NodeLinesOf(i) :
      /\ buf[k].label # <<>>
      /\ Len(blocks[i].Nodes) = 0 =>
           buf[k].label =
             (IF i = 0 THEN S_Start
              ELSE IF Len(blocks[i].Succs) = 0 THEN S_End
              ELSE IF Len(blocks[i].Succs) = 2 THEN S_LoopEntry
              ELSE S_Merge)
      /\ (~SplitBlock(i) /\ formatNodes(blocks[i].Nodes) # <<>>) =>
           buf[k].label = formatNodes(blocks[i].Nodes)

====
